---- MODULE Spec2Model ----
(***************************************************************************)
(* Model of driver/gator_trace_power.c: the power-event collector of the   *)
(* gator driver (cpu_frequency / gpu_frequency / cpu_idle tracepoint       *)
(* probes, the hot-plug callbacks, the frequency polling work item with    *)
(* its wake-up timer, and start/stop/init).                                *)
(*                                                                         *)
(* start() and stop() are modelled statement by statement (pc), because    *)
(* the probes, the work item, the timer and the gatorfs writers run        *)
(* concurrently with them.  A probe, a hot-plug callback and the timer     *)
(* callback are one step each; the work item is two steps (the loop over   *)
(* the present CPUs, then mod_timer).  Spec runs every cpu_idle invocation *)
(* to its end before the next one; SpecSmp lets invocations overlap.       *)
(***************************************************************************)
EXTENDS Integers, Sequences, FiniteSets

(* ------------------------------ bounds -------------------------------- *)

\* number of present CPUs (logical ids 0 .. NCpu-1)
NCpu == 2

\* idle states a cpu_idle tracepoint may carry: 0 .. MaxIdleState
MaxIdleState == 1

Present == 0 .. (NCpu - 1)

\* nr_cpu_ids: one possible CPU id more than the present ones
PossibleCpus == 0 .. NCpu

IdleStates == 0 .. MaxIdleState

\* values gatorfs can store in an "enabled" file (only zero / non-zero matters)
FlagValues == {0, 1}

(* ------------------------- 32/64-bit arithmetic ----------------------- *)
(* An unsigned int is a pair <<hi, lo>> of 16-bit limbs, a 64-bit sample   *)
(* value a triple <<l2, l1, l0>> of 16-bit limbs (f * 1000 < 2^48).        *)

Limb == 2 ^ 16

\* a cpufreq frequency in kHz: 600000 kHz
FreqKHz == <<9, 10176>>

\* frequencies the cpufreq core reports for an online CPU
PolicyFreqs == {FreqKHz}

\* a frequency whose product with 1000 needs 33 bits: 4294968 kHz
FastKHz == <<65, 35128>>

\* frequencies a tracepoint may carry
HookFreqs == {FreqKHz, FastKHz}

\* the exact product f * 1000
Mul1000(f) ==
    LET p0 == f[2] * 1000
        p1 == f[1] * 1000 + (p0 \div Limb)
    IN  <<p1 \div Limb, p1 % Limb, p0 % Limb>>

\* the builds: implements_wfi() is !machine_is_omap3_beagle() on 32-bit ARM
\* and false elsewhere; long is 32 bits wide on ARM and 64 bits wide on
\* LP64 targets.  implements_wfi() is read by the cpu_idle probe only and
\* the width of long matters to the "* 1000L" products only, so these two
\* builds show both values of each.
Builds ==
    { [wfi |-> TRUE,  long_bits |-> 32],
      [wfi |-> FALSE, long_bits |-> 64] }

VARIABLES
    pc,                 \* position of the (serialised) init/start/stop caller
    returned,           \* what the last finished call was and returned
    build,              \* the build: implements_wfi() and the width of long
    power_cpu_enabled,  \* power_cpu_enabled[POWER_CPU_FREQ]
    power_cpu_key,      \* power_cpu_key[POWER_CPU_FREQ]
    power_gpu_enabled,
    power_gpu_key,
    gator_key,          \* the key allocator behind gator_events_get_key()
    idle_prev_state,    \* DEFINE_PER_CPU(ulong, idle_prev_state)
    hooks,              \* the probes registered with the tracepoints
    freq_work,          \* the delayed work: [pending, running]
    freq_wake_up_timer, \* the timer: [fn (set up), armed]
    last,               \* the step just taken: operation, inputs, sink calls
    idleSeen,           \* per CPU: state of the previous cpu_idle invocation
    idleFwd,            \* per CPU: state of the previous marshal_idle call
    idle_inflight       \* cpu_idle invocations between line 95 and line 101

vars ==
    <<pc, returned, build, power_cpu_enabled, power_cpu_key, power_gpu_enabled,
      power_gpu_key, gator_key, idle_prev_state, hooks, freq_work,
      freq_wake_up_timer, last, idleSeen, idleFwd, idle_inflight>>

(* ------------------------------ helpers ------------------------------- *)

\* frequency * 1000L: computed in long, so truncated to 32 bits where long
\* is 32 bits wide
Times1000L(f) ==
    LET v == Mul1000(f)
    IN  IF build.long_bits = 32 THEN <<0, v[2], v[3]>> ELSE v

implements_wfi == build.wfi

\* logical to physical CPU id
lcpu_to_pcpu(lcpu) == (lcpu + 1) % NCpu

\* first key the allocator hands out
FirstKey == 1

\* the sink calls
marshal_event_single64(cpu, key, value) ==
    [fn |-> "marshal_event_single64", cpu |-> cpu, key |-> key, val |-> value]

marshal_event_single(cpu, key, value) ==
    [fn |-> "marshal_event_single", cpu |-> cpu, key |-> key, val |-> value]

marshal_idle(cpu, state) ==
    [fn |-> "marshal_idle", cpu |-> cpu, state |-> state]

Zero == <<0, 0, 0>>

\* the record of a step: operation, CPU, input, sink calls
Op(op, cpu, arg, out) == [op |-> op, cpu |-> cpu, arg |-> arg, out |-> out]

Quiet(op) == Op(op, -1, 0, <<>>)

(* ------------------------------- Init --------------------------------- *)

Init ==
    /\ pc = "unloaded"
    /\ returned = "none"
    /\ build \in Builds
    /\ power_cpu_enabled = 0
    /\ power_cpu_key = 0
    /\ power_gpu_enabled = 0
    /\ power_gpu_key = 0
    /\ gator_key = FirstKey
    /\ idle_prev_state = [c \in Present |-> 0]
    /\ hooks = {}
    /\ freq_work = [pending |-> FALSE, running |-> FALSE]
    /\ freq_wake_up_timer = [fn |-> FALSE, armed |-> FALSE]
    /\ last = Quiet("load")
    /\ idleSeen = [c \in Present |-> 0]
    /\ idleFwd = [c \in Present |-> 0]
    /\ idle_inflight = <<>>

(* ------------------------ gator_trace_power_init ---------------------- *)

gator_trace_power_init ==
    /\ pc = "unloaded"
    /\ pc' = "stopped"
    /\ returned' = "init"
    /\ power_cpu_enabled' = 0
    /\ power_cpu_key' = gator_key
    /\ gator_key' = gator_key + 1
    /\ last' = Quiet("init")
    /\ UNCHANGED <<build, power_gpu_enabled, power_gpu_key, idle_prev_state,
                   hooks, freq_work, freq_wake_up_timer, idleSeen, idleFwd,
                   idle_inflight>>

(* --------------------- gatorfs writes to "enabled" -------------------- *)

WriteCpuEnabled ==
    /\ pc # "unloaded"
    /\ \E v \in FlagValues : power_cpu_enabled' = v
    /\ last' = Quiet("step")
    /\ UNCHANGED <<pc, returned, build, power_cpu_key, power_gpu_enabled,
                   power_gpu_key, gator_key, idle_prev_state, hooks, freq_work,
                   freq_wake_up_timer, idleSeen, idleFwd,
                   idle_inflight>>

WriteGpuEnabled ==
    /\ pc # "unloaded"
    /\ \E v \in FlagValues : power_gpu_enabled' = v
    /\ last' = Quiet("step")
    /\ UNCHANGED <<pc, returned, build, power_cpu_enabled, power_cpu_key,
                   power_gpu_key, gator_key, idle_prev_state, hooks, freq_work,
                   freq_wake_up_timer, idleSeen, idleFwd,
                   idle_inflight>>

(* --------------------------- tracepoint probes ------------------------ *)

\* GATOR_DEFINE_PROBE(cpu_frequency): no test of the enabled flag
cpu_frequency_out(frequency, cpu) ==
    <<marshal_event_single64(cpu, power_cpu_key, Times1000L(frequency))>>

probe_cpu_frequency ==
    /\ "cpu_frequency" \in hooks
    /\ \E frequency \in HookFreqs, lcpu \in Present :
         LET cpu == lcpu_to_pcpu(lcpu)
         IN  last' = Op("cpu_frequency", cpu, frequency,
                        cpu_frequency_out(frequency, cpu))
    /\ UNCHANGED <<pc, returned, build, power_cpu_enabled, power_cpu_key,
                   power_gpu_enabled, power_gpu_key, gator_key, idle_prev_state,
                   hooks, freq_work, freq_wake_up_timer, idleSeen, idleFwd,
                   idle_inflight>>

\* GATOR_DEFINE_PROBE(gpu_frequency): pcpu is the CPU the probe runs on
gpu_frequency_out(frequency, pcpu) ==
    <<marshal_event_single64(pcpu, power_gpu_key, Times1000L(frequency))>>

probe_gpu_frequency ==
    /\ "gpu_frequency" \in hooks
    /\ \E frequency \in HookFreqs, lcpu \in Present :
         LET pcpu == lcpu_to_pcpu(lcpu)
         IN  last' = Op("gpu_frequency", pcpu, frequency,
                        gpu_frequency_out(frequency, pcpu))
    /\ UNCHANGED <<pc, returned, build, power_cpu_enabled, power_cpu_key,
                   power_gpu_enabled, power_gpu_key, gator_key, idle_prev_state,
                   hooks, freq_work, freq_wake_up_timer, idleSeen, idleFwd,
                   idle_inflight>>

\* a cpu_idle that forwards without asking implements_wfi()
cpu_idle_out_any_platform(state, cpu) ==
    IF state = idle_prev_state[cpu]
    THEN <<>>
    ELSE <<marshal_idle(cpu, state)>>

\* GATOR_DEFINE_PROBE(cpu_idle): what it hands to the sink
cpu_idle_out(state, cpu) ==
    IF state = idle_prev_state[cpu]
    THEN <<>>
    ELSE IF implements_wfi THEN <<marshal_idle(cpu, state)>> ELSE <<>>

\* a cpu_idle that never stores the state it saw
cpu_idle_store_never(state, cpu) ==
    idle_prev_state

\* GATOR_DEFINE_PROBE(cpu_idle): what it leaves in idle_prev_state
cpu_idle_store(state, cpu) ==
    IF state = idle_prev_state[cpu]
    THEN idle_prev_state
    ELSE [idle_prev_state EXCEPT ![cpu] = state]

probe_cpu_idle ==
    /\ "cpu_idle" \in hooks
    /\ \E state \in IdleStates, lcpu \in Present :
         LET cpu == lcpu_to_pcpu(lcpu)
         IN  /\ last' = Op("cpu_idle", cpu,
                           [state |-> state, seen |-> idleSeen[cpu],
                            fwd |-> idleFwd[cpu]],
                           cpu_idle_out(state, cpu))
             /\ idle_prev_state' = cpu_idle_store(state, cpu)
             /\ idleSeen' = [idleSeen EXCEPT ![cpu] = state]
             /\ idleFwd' = IF cpu_idle_out(state, cpu) = <<>>
                           THEN idleFwd
                           ELSE [idleFwd EXCEPT ![cpu] = state]
    /\ UNCHANGED <<pc, returned, build, power_cpu_enabled, power_cpu_key,
                   power_gpu_enabled, power_gpu_key, gator_key, hooks,
                   freq_work, freq_wake_up_timer,
                   idle_inflight>>

(* A cpu_idle invocation that overlaps other invocations: the probe takes   *)
(* no lock, so between its test (line 95) and its store (line 101) other    *)
(* invocations can run.  One invocation at a time is followed through the   *)
(* two steps; probe_cpu_idle is an invocation that nothing overlaps.        *)

\* lines 93-96, for a state that differs from the stored one (an equal state
\* returns at once, which is probe_cpu_idle)
cpu_idle_compare ==
    /\ "cpu_idle" \in hooks
    /\ idle_inflight = <<>>
    /\ \E state \in IdleStates, lcpu \in Present :
         LET cpu == lcpu_to_pcpu(lcpu)
         IN  /\ state # idle_prev_state[cpu]
             /\ idle_inflight' = <<[cpu |-> cpu, state |-> state]>>
    /\ last' = Quiet("step")
    /\ UNCHANGED <<pc, returned, build, power_cpu_enabled, power_cpu_key,
                   power_gpu_enabled, power_gpu_key, gator_key, idle_prev_state,
                   hooks, freq_work, freq_wake_up_timer, idleSeen, idleFwd>>

\* lines 98-99
cpu_idle_forward_out(state, cpu) ==
    IF implements_wfi THEN <<marshal_idle(cpu, state)>> ELSE <<>>

\* lines 98-102
cpu_idle_forward ==
    /\ idle_inflight # <<>>
    /\ LET cpu == idle_inflight[1].cpu
           state == idle_inflight[1].state
       IN  /\ last' = Op("cpu_idle", cpu,
                         [state |-> state, seen |-> idleSeen[cpu],
                          fwd |-> idleFwd[cpu]],
                         cpu_idle_forward_out(state, cpu))
           /\ idle_prev_state' = [idle_prev_state EXCEPT ![cpu] = state]
           /\ idleSeen' = [idleSeen EXCEPT ![cpu] = state]
           /\ idleFwd' = IF cpu_idle_forward_out(state, cpu) = <<>>
                         THEN idleFwd
                         ELSE [idleFwd EXCEPT ![cpu] = state]
    /\ idle_inflight' = <<>>
    /\ UNCHANGED <<pc, returned, build, power_cpu_enabled, power_cpu_key,
                   power_gpu_enabled, power_gpu_key, gator_key, hooks,
                   freq_work, freq_wake_up_timer>>

(* --------------------------- hot-plug callbacks ----------------------- *)

\* an online callback that does not test the enabled flag
power_online_out_ungated(pcpu, freq) ==
    <<marshal_event_single64(pcpu, power_cpu_key, Times1000L(freq))>>

\* gator_trace_power_online: freq is cpufreq_quick_get(lcpu)
power_online_out(pcpu, freq) ==
    IF power_cpu_enabled # 0
    THEN <<marshal_event_single64(pcpu, power_cpu_key, Times1000L(freq))>>
    ELSE <<>>

gator_trace_power_online ==
    /\ pc # "unloaded"
    /\ \E lcpu \in Present, freq \in PolicyFreqs :
         LET pcpu == lcpu_to_pcpu(lcpu)
         IN  last' = Op("online", pcpu, freq, power_online_out(pcpu, freq))
    /\ UNCHANGED <<pc, returned, build, power_cpu_enabled, power_cpu_key,
                   power_gpu_enabled, power_gpu_key, gator_key, idle_prev_state,
                   hooks, freq_work, freq_wake_up_timer, idleSeen, idleFwd,
                   idle_inflight>>

\* gator_trace_power_offline
power_offline_out(cpu) ==
    IF power_cpu_enabled # 0
    THEN <<marshal_event_single(cpu, power_cpu_key, Zero)>>
    ELSE <<>>

gator_trace_power_offline ==
    /\ pc # "unloaded"
    /\ \E lcpu \in Present :
         LET cpu == lcpu_to_pcpu(lcpu)
         IN  last' = Op("offline", cpu, 0, power_offline_out(cpu))
    /\ UNCHANGED <<pc, returned, build, power_cpu_enabled, power_cpu_key,
                   power_gpu_enabled, power_gpu_key, gator_key, idle_prev_state,
                   hooks, freq_work, freq_wake_up_timer, idleSeen, idleFwd,
                   idle_inflight>>

(* ----------------------- the polling work and timer ------------------- *)

\* what the platform answers for one CPU during a cycle: cpu_online(cpu),
\* and for an online CPU cpufreq_cpu_get(cpu): <<>> for NULL, or <<cur>>
\* for a policy with policy->cur
CpuAnswers ==
    {[online |-> FALSE, policy |-> <<>>]}
      \cup {[online |-> TRUE, policy |-> p] :
              p \in {<<>>} \cup {<<f>> : f \in PolicyFreqs}}

\* a loop body that reports a CPU without policy as frequency 0
wq_freq_sample_zero_nopolicy(cpu, answer) ==
    IF answer.online /\ answer.policy # <<>>
    THEN <<marshal_event_single64(cpu, power_cpu_key,
                                  Times1000L(answer.policy[1]))>>
    ELSE <<marshal_event_single(cpu, power_cpu_key, Zero)>>

\* wq_freq_handler: the body of for_each_present_cpu for one CPU
wq_freq_sample(cpu, answer) ==
    IF answer.online
    THEN IF answer.policy # <<>>
         THEN <<marshal_event_single64(cpu, power_cpu_key,
                                       Times1000L(answer.policy[1]))>>
         ELSE <<>>
    ELSE <<marshal_event_single(cpu, power_cpu_key, Zero)>>

\* wq_freq_handler: for_each_present_cpu, in ascending order from cpu on
RECURSIVE wq_freq_loop(_, _)
wq_freq_loop(cpu, answers) ==
    IF cpu \notin Present
    THEN <<>>
    ELSE wq_freq_sample(cpu, answers[cpu]) \o wq_freq_loop(cpu + 1, answers)

\* the work item starts: it is dequeued and runs the loop (lines 131-141)
wq_freq_handler ==
    /\ freq_work.pending
    /\ ~freq_work.running
    /\ freq_work' = [pending |-> FALSE, running |-> TRUE]
    /\ \E answers \in [Present -> CpuAnswers] :
         last' = Op("wq_freq_handler", -1, answers, wq_freq_loop(0, answers))
    /\ UNCHANGED <<pc, returned, build, power_cpu_enabled, power_cpu_key,
                   power_gpu_enabled, power_gpu_key, gator_key, idle_prev_state,
                   hooks, freq_wake_up_timer, idleSeen, idleFwd,
                   idle_inflight>>

\* mod_timer(&freq_wake_up_timer, ...) (line 142) and the work item's return.
\* On a timer that was never set up the result is not defined: the timer
\* is armed or it is not.
wq_mod_timer ==
    /\ freq_work.running
    /\ freq_work' = [freq_work EXCEPT !.running = FALSE]
    /\ \E armed \in BOOLEAN :
         /\ freq_wake_up_timer.fn => armed
         /\ freq_wake_up_timer' = [freq_wake_up_timer EXCEPT !.armed = armed]
    /\ last' = Quiet("step")
    /\ UNCHANGED <<pc, returned, build, power_cpu_enabled, power_cpu_key,
                   power_gpu_enabled, power_gpu_key, gator_key, idle_prev_state,
                   hooks, idleSeen, idleFwd,
                   idle_inflight>>

\* the timer expires: freq_wake_up_handler runs schedule_delayed_work(.., 0),
\* which queues the work unless it is already pending.  An armed timer
\* without a function schedules nothing.
freq_wake_up_handler ==
    /\ freq_wake_up_timer.armed
    /\ freq_wake_up_timer' = [freq_wake_up_timer EXCEPT !.armed = FALSE]
    /\ freq_work' = [freq_work EXCEPT
                       !.pending = freq_work.pending \/ freq_wake_up_timer.fn]
    /\ last' = Quiet("step")
    /\ UNCHANGED <<pc, returned, build, power_cpu_enabled, power_cpu_key,
                   power_gpu_enabled, power_gpu_key, gator_key, idle_prev_state,
                   hooks, idleSeen, idleFwd,
                   idle_inflight>>

(* ------------------------ gator_trace_power_start --------------------- *)

\* GATOR_REGISTER_TRACE succeeds unless the tracepoint refuses the probe;
\* a probe that is already registered is always refused
register_ok(hook, refused) == ~refused /\ hook \notin hooks

\* lines 155-157; a refusal goes to fail_cpu_frequency_exit (lines 184-187),
\* which only reports and returns -1
start_cpu_frequency ==
    /\ pc = "stopped"
    /\ \E refused \in BOOLEAN :
         IF power_cpu_enabled # 0
         THEN IF register_ok("cpu_frequency", refused)
              THEN /\ hooks' = hooks \cup {"cpu_frequency"}
                   /\ pc' = "start_gpu"
                   /\ returned' = "none"
                   /\ last' = Quiet("step")
              ELSE /\ hooks' = hooks
                   /\ pc' = "stopped"
                   /\ returned' = "start_fail"
                   /\ last' = Quiet("start_return")
         ELSE /\ hooks' = hooks
              /\ pc' = "start_gpu"
              /\ returned' = "none"
              /\ last' = Quiet("step")
    /\ UNCHANGED <<build, power_cpu_enabled, power_cpu_key,
                   power_gpu_enabled, power_gpu_key, gator_key, idle_prev_state,
                   freq_work, freq_wake_up_timer, idleSeen, idleFwd,
                   idle_inflight>>

\* lines 159-161
start_gpu_frequency ==
    /\ pc = "start_gpu"
    /\ \E refused \in BOOLEAN :
         IF power_gpu_enabled # 0
         THEN IF register_ok("gpu_frequency", refused)
              THEN hooks' = hooks \cup {"gpu_frequency"} /\ pc' = "start_idle"
              ELSE hooks' = hooks /\ pc' = "fail_gpufreq_set_exit"
         ELSE hooks' = hooks /\ pc' = "start_idle"
    /\ last' = Quiet("step")
    /\ UNCHANGED <<returned, build, power_cpu_enabled, power_cpu_key,
                   power_gpu_enabled, power_gpu_key, gator_key, idle_prev_state,
                   freq_work, freq_wake_up_timer, idleSeen, idleFwd,
                   idle_inflight>>

\* lines 164-165
start_cpu_idle ==
    /\ pc = "start_idle"
    /\ \E refused \in BOOLEAN :
         IF register_ok("cpu_idle", refused)
         THEN /\ hooks' = hooks \cup {"cpu_idle"}
              /\ pc' = "start_work"
              /\ last' = Quiet("register_cpu_idle")
         ELSE /\ hooks' = hooks
              /\ pc' = "fail_cpu_idle_exit"
              /\ last' = Quiet("step")
    /\ UNCHANGED <<returned, build, power_cpu_enabled, power_cpu_key,
                   power_gpu_enabled, power_gpu_key, gator_key, idle_prev_state,
                   freq_work, freq_wake_up_timer, idleSeen, idleFwd,
                   idle_inflight>>

\* line 168: schedule_delayed_work(&freq_work, 0)
start_schedule_work ==
    /\ pc = "start_work"
    /\ pc' = "start_timer"
    /\ freq_work' = [freq_work EXCEPT !.pending = TRUE]
    /\ last' = Quiet("step")
    /\ UNCHANGED <<returned, build, power_cpu_enabled, power_cpu_key,
                   power_gpu_enabled, power_gpu_key, gator_key, idle_prev_state,
                   hooks, freq_wake_up_timer, idleSeen, idleFwd,
                   idle_inflight>>

\* lines 169-175: setup_deferrable_timer_on_stack(&freq_wake_up_timer, ...),
\* the reset of idle_prev_state for every present CPU, and return 0.
\* Initialising a timer that is armed is not defined: the timer stays
\* armed or the arming is lost.
start_setup_timer ==
    /\ pc = "start_timer"
    /\ pc' = "running"
    /\ returned' = "start_ok"
    /\ \E armed \in BOOLEAN :
         /\ armed => freq_wake_up_timer.armed
         /\ freq_wake_up_timer' = [fn |-> TRUE, armed |-> armed]
    /\ idle_prev_state' = [c \in Present |-> 0]
    /\ idleSeen' = [c \in Present |-> 0]
    /\ idleFwd' = [c \in Present |-> 0]
    /\ last' = Quiet("start_return")
    /\ UNCHANGED <<build, power_cpu_enabled, power_cpu_key, power_gpu_enabled,
                   power_gpu_key, gator_key, hooks, freq_work,
                   idle_inflight>>

\* a rollback that starts with the probe registered first
fail_cpu_idle_unregisters_cpu_first ==
    IF power_cpu_enabled # 0 THEN {"cpu_frequency"} ELSE {}

\* lines 179-180: what the label fail_cpu_idle_exit unregisters
fail_cpu_idle_unregisters ==
    IF power_gpu_enabled # 0 THEN {"gpu_frequency"} ELSE {}

\* lines 178-180
fail_cpu_idle_exit ==
    /\ pc = "fail_cpu_idle_exit"
    /\ pc' = "fail_gpufreq_set_exit"
    /\ hooks' = hooks \ fail_cpu_idle_unregisters
    /\ last' = Quiet(IF hooks' # hooks THEN "unregister_gpu_frequency"
                                      ELSE "step")
    /\ UNCHANGED <<returned, build, power_cpu_enabled, power_cpu_key,
                   power_gpu_enabled, power_gpu_key, gator_key, idle_prev_state,
                   freq_work, freq_wake_up_timer, idleSeen, idleFwd,
                   idle_inflight>>

\* lines 181-187: the last unregistration, pr_err and return -1
fail_gpufreq_set_exit ==
    /\ pc = "fail_gpufreq_set_exit"
    /\ pc' = "stopped"
    /\ returned' = "start_fail"
    /\ hooks' = IF power_cpu_enabled # 0
                THEN hooks \ {"cpu_frequency"} ELSE hooks
    /\ last' = Quiet("start_return")
    /\ UNCHANGED <<build, power_cpu_enabled, power_cpu_key,
                   power_gpu_enabled, power_gpu_key, gator_key, idle_prev_state,
                   freq_work, freq_wake_up_timer, idleSeen, idleFwd,
                   idle_inflight>>

(* ------------------------- gator_trace_power_stop --------------------- *)

\* the probes stop() hands to GATOR_UNREGISTER_TRACE (lines 194-200)
stop_unregisters ==
    (IF power_cpu_enabled # 0 THEN {"cpu_frequency"} ELSE {})
      \cup (IF power_gpu_enabled # 0 THEN {"gpu_frequency"} ELSE {})
      \cup {"cpu_idle"}

\* lines 194-201
stop_unregister ==
    /\ pc = "running"
    /\ pc' = "stop_timer"
    /\ hooks' = hooks \ stop_unregisters
    /\ last' = Quiet("step")
    /\ UNCHANGED <<returned, build, power_cpu_enabled, power_cpu_key,
                   power_gpu_enabled, power_gpu_key, gator_key, idle_prev_state,
                   freq_work, freq_wake_up_timer, idleSeen, idleFwd,
                   idle_inflight>>

\* lines 203-207: del_timer_sync(&freq_wake_up_timer), the reset of
\* power_cpu_enabled[], and the return
stop_del_timer ==
    /\ pc = "stop_timer"
    /\ pc' = "stopped"
    /\ returned' = "stop"
    /\ freq_wake_up_timer' = [freq_wake_up_timer EXCEPT !.armed = FALSE]
    /\ power_cpu_enabled' = 0
    /\ last' = Quiet("stop_return")
    /\ UNCHANGED <<build, power_cpu_key, power_gpu_enabled, power_gpu_key,
                   gator_key, idle_prev_state, hooks, freq_work, idleSeen, idleFwd,
                   idle_inflight>>

(* --------------------------- the specification ------------------------ *)

Next ==
    \/ gator_trace_power_init
    \/ WriteCpuEnabled
    \/ WriteGpuEnabled
    \/ probe_cpu_frequency
    \/ probe_gpu_frequency
    \/ probe_cpu_idle
    \/ gator_trace_power_online
    \/ gator_trace_power_offline
    \/ wq_freq_handler
    \/ wq_mod_timer
    \/ freq_wake_up_handler
    \/ start_cpu_frequency
    \/ start_gpu_frequency
    \/ start_cpu_idle
    \/ start_schedule_work
    \/ start_setup_timer
    \/ fail_cpu_idle_exit
    \/ fail_gpufreq_set_exit
    \/ stop_unregister
    \/ stop_del_timer

Spec == Init /\ [][Next]_vars

\* the workqueue runs a pending work item, a running handler reaches its
\* end and an armed timer expires
SpecLive ==
    /\ Spec
    /\ WF_vars(wq_freq_handler)
    /\ WF_vars(wq_mod_timer)
    /\ WF_vars(freq_wake_up_handler)

\* the driver on a system where cpu_idle invocations overlap
NextSmp ==
    \/ Next
    \/ cpu_idle_compare
    \/ cpu_idle_forward

SpecSmp == Init /\ [][NextSmp]_vars

(* ------------------------------- claims ------------------------------- *)

Sentinel == [c \in Present |-> 0]

PollerIdle ==
    /\ ~freq_work.pending
    /\ ~freq_work.running
    /\ ~freq_wake_up_timer.armed

\* C1: once stop() has returned, no wq_freq_handler is queued or running
\* and the wake-up timer is not armed.
C1_QuiescentAfterStop ==
    (pc = "stopped" /\ returned = "stop") => PollerIdle

\* the cpu_idle samples of a step, and whether it forwarded any
IdleStep == last.op = "cpu_idle" /\ pc = "running" /\ implements_wfi

\* C2: with implements_wfi() true, a cpu_idle invocation of a Running
\* session is handed to marshal_idle if and only if its state differs from
\* the state of the previous invocation for that CPU (0 for the first one),
\* and no state is handed to marshal_idle twice in a row for a CPU.
C2_IdleDedup ==
    IdleStep =>
        /\ (last.out # <<>>) <=> (last.arg.state # last.arg.seen)
        /\ last.out # <<>> =>
             /\ last.out = <<marshal_idle(last.cpu, last.arg.state)>>
             /\ last.arg.state # last.arg.fwd

\* C2 witness: a repeated non-zero state was dropped in a Running session.
C2_Witness ==
    /\ IdleStep
    /\ last.arg.state = last.arg.seen
    /\ last.arg.state # 0
    /\ last.out = <<>>

\* C3: a start() that returns -1 leaves no probe registered, and no step
\* of start() changes an enabled flag.
C3_FailedStartRollsBack ==
    [][ /\ (last'.op = "start_return" /\ returned' = "start_fail")
            => hooks' = {}
        /\ (pc \in {"stopped", "start_gpu", "start_idle", "start_work",
                    "start_timer", "fail_cpu_idle_exit",
                    "fail_gpufreq_set_exit"} /\ pc' # pc)
            => UNCHANGED <<power_cpu_enabled, power_gpu_enabled>> ]_vars

\* C4: stop() unregisters exactly the registered probes: every probe it
\* hands to GATOR_UNREGISTER_TRACE is registered, and none stays registered.
C4_StopUnregistersAll ==
    [][ (pc = "running" /\ pc' = "stop_timer")
            => (stop_unregisters \subseteq hooks /\ hooks' = {}) ]_vars

\* C5: when stop() returns both enabled flags are 0 and both keys are
\* what they were.
C5_StopResetsFlags ==
    [][ (pc = "stop_timer" /\ pc' = "stopped")
            => /\ power_cpu_enabled' = 0
               /\ power_gpu_enabled' = 0
               /\ UNCHANGED <<power_cpu_key, power_gpu_key>> ]_vars

\* the samples of the cycle just run that carry CPU c
CycleSamples(c) == {i \in 1 .. Len(last.out) : last.out[i].cpu = c}

C7_Heartbeat ==
    (pc = "running" /\ last.op # "wq_freq_handler")
        ~> (last.op = "wq_freq_handler" \/ pc # "running")

\* C8: while Running, a cpu_frequency or gpu_frequency probe forwards a
\* sample only if the enabled flag of its class is non-zero when it is
\* invoked.
C8_ProbesGated ==
    pc = "running" =>
        /\ (last.op = "cpu_frequency" /\ last.out # <<>>)
               => power_cpu_enabled # 0
        /\ (last.op = "gpu_frequency" /\ last.out # <<>>)
               => power_gpu_enabled # 0

\* C9: a start() that returns -1 leaves the caller Stopped with no cycle
\* queued or running and the timer not armed; a start() that returns 0
\* leaves it Running with the timer set up and idle_prev_state 0 for every
\* present CPU.
C9_StartOutcome ==
    /\ (last.op = "start_return" /\ returned = "start_fail")
           => (pc = "stopped" /\ PollerIdle)
    /\ (last.op = "start_return" /\ returned = "start_ok")
           => (pc = "running" /\ freq_wake_up_timer.fn
               /\ idle_prev_state = Sentinel)

AllocatedKeys == FirstKey .. (gator_key - 1)

\* C11: init() gives power_cpu_key and power_gpu_key one key of the
\* allocator each and leaves both enabled flags 0; the two keys differ, and
\* no later step changes either key.
C11_KeysAllocated ==
    [][ /\ (pc = "unloaded" /\ pc' # "unloaded") =>
             /\ power_cpu_key' \in AllocatedKeys'
             /\ power_gpu_key' \in AllocatedKeys'
             /\ power_cpu_key' # power_gpu_key'
             /\ power_cpu_enabled' = 0
             /\ power_gpu_enabled' = 0
        /\ pc # "unloaded" => UNCHANGED <<power_cpu_key, power_gpu_key>> ]_vars

\* C12: two overlapping cpu_idle invocations for the same CPU with the same
\* state forward one transition: an invocation that returns right after
\* another one forwarded its state for its CPU forwards nothing.
C12_SameStateOnce ==
    [][ ( /\ idle_inflight # <<>>
          /\ idle_inflight' = <<>>
          /\ last.op = "cpu_idle"
          /\ last.out # <<>>
          /\ last.cpu = idle_inflight[1].cpu
          /\ last.arg.state = idle_inflight[1].state )
        => last'.out = <<>> ]_vars

\* C13: in every session the first cpu_idle invocation for a CPU after the
\* registration of the cpu_idle probe is compared against 0, and the reset
\* of start() (lines 171-173) does not overwrite a state that an invocation
\* of the same session has stored.
C13_FreshSession ==
    [][ /\ (last.op = "register_cpu_idle" /\ last'.op = "cpu_idle")
               => idle_prev_state[last'.cpu] = 0
        /\ (last.op = "cpu_idle" /\ pc = "start_timer" /\ pc' = "running")
               => idle_prev_state[last.cpu] = 0 ]_vars

\* C14: where implements_wfi() is false no cpu_idle invocation calls
\* marshal_idle, and on every build the stored idle state of the CPU is the
\* invocation's state when the invocation returns.
C14_QuirkTracksOnly ==
    last.op = "cpu_idle" =>
        /\ ~implements_wfi => last.out = <<>>
        /\ idle_prev_state[last.cpu] = last.arg.state

\* C14 witness: without WFI a changed, non-zero state was stored in a
\* Running session and nothing was forwarded.
C14_Witness ==
    /\ ~implements_wfi
    /\ pc = "running"
    /\ last.op = "cpu_idle"
    /\ last.arg.state # last.arg.seen
    /\ last.arg.state # 0
    /\ idle_prev_state[last.cpu] = last.arg.state
    /\ last.out = <<>>

\* C15: start() registers cpu_frequency, then gpu_frequency, then cpu_idle,
\* each at its own statement and the frequency probes only with their flag
\* set; a refusal goes to the rollback and registers nothing more; the
\* rollback unregisters gpu_frequency (at fail_cpu_idle_exit) before
\* cpu_frequency (at fail_gpufreq_set_exit) and never cpu_idle.
C15_RegistrationOrder ==
    [][ (pc' # pc \/ hooks' # hooks) =>
        /\ "cpu_frequency" \in hooks' \ hooks
               => (pc = "stopped" /\ pc' = "start_gpu" /\ power_cpu_enabled # 0)
        /\ "gpu_frequency" \in hooks' \ hooks
               => (pc = "start_gpu" /\ pc' = "start_idle"
                   /\ power_gpu_enabled # 0)
        /\ "cpu_idle" \in hooks' \ hooks
               => (pc = "start_idle" /\ pc' = "start_work")
        /\ pc = "start_gpu"
               => pc' \in {"start_idle", "fail_gpufreq_set_exit"}
        /\ pc = "start_idle"
               => pc' \in {"start_work", "fail_cpu_idle_exit"}
        /\ pc' \in {"fail_gpufreq_set_exit", "fail_cpu_idle_exit"}
               => hooks' \subseteq hooks
        /\ pc = "fail_cpu_idle_exit"
               => pc' = "fail_gpufreq_set_exit"
        /\ pc = "fail_gpufreq_set_exit"
               => (pc' = "stopped" /\ returned' = "start_fail")
        /\ "gpu_frequency" \in hooks \ hooks'
               => pc \in {"fail_cpu_idle_exit", "running"}
        /\ "cpu_frequency" \in hooks \ hooks'
               => pc \in {"fail_gpufreq_set_exit", "running"}
        /\ "cpu_idle" \in hooks \ hooks' => pc = "running" ]_vars

\* C15 witness: cpu_idle was refused with both frequency probes
\* registered; the rollback has unregistered gpu_frequency and is about to
\* unregister cpu_frequency.
C15_Witness ==
    /\ pc = "fail_gpufreq_set_exit"
    /\ last.op = "unregister_gpu_frequency"
    /\ hooks = {"cpu_frequency"}
    /\ power_cpu_enabled # 0

\* C16: a cpu_frequency or gpu_frequency probe forwards exactly one
\* marshal_event_single64 sample that carries its CPU, the key of its class
\* and the exact product frequency * 1000.
C16_ExactScaling ==
    /\ last.op = "cpu_frequency" =>
         last.out = <<marshal_event_single64(last.cpu, power_cpu_key,
                                             Mul1000(last.arg))>>
    /\ last.op = "gpu_frequency" =>
         last.out = <<marshal_event_single64(last.cpu, power_gpu_key,
                                             Mul1000(last.arg))>>

\* C17: in a Running session that was started with power_cpu_enabled 0
\* (cpu_frequency is not registered) and has it 0, no step hands the sink a
\* sample tagged with power_cpu_key.
C17_NoCpuSamplesWhenDisabled ==
    (pc = "running" /\ power_cpu_enabled = 0 /\ "cpu_frequency" \notin hooks)
        => \A i \in 1 .. Len(last.out) :
              \/ last.out[i].fn = "marshal_idle"
              \/ last.out[i].key # power_cpu_key

\* C18: mod_timer (line 142) only ever runs on a timer that start() has set
\* up, and start() sets the timer up (line 169) only while it is not armed.
C18_TimerSetupOrder ==
    [][ /\ (freq_work.running /\ ~freq_work'.running)
               => freq_wake_up_timer.fn
        /\ (pc = "start_timer" /\ pc' = "running")
               => ~freq_wake_up_timer.armed ]_vars

\* C19: at most one poller chain is live: the timer is not armed while a
\* cycle is queued or running, and no cycle is queued while one is running.
C19_OneChain ==
    /\ ~((freq_work.pending \/ freq_work.running) /\ freq_wake_up_timer.armed)
    /\ ~(freq_work.pending /\ freq_work.running)

====
